---------------------------- MODULE Spec2Model ----------------------------
(***************************************************************************)
(* The credit ledger (credits-manager: deductCredits, refundCredits,       *)
(* getUserCredits, addCredits, recordVideoCompletion) and the video        *)
(* completion workflow (completeVideoProcessing) of ship-fast.             *)
(*                                                                         *)
(* Every await on the database is one atomic step; the code between two    *)
(* awaits is local to the call and belongs to the step of the await that   *)
(* precedes it.  Callers run concurrently: their steps interleave freely.  *)
(***************************************************************************)
EXTENDS Integers, Sequences, FiniteSets, TLC

(* ------------------------------ bounds -------------------------------- *)

\* Number of ledger calls (of any kind) concurrent callers make in one behaviour.
MaxCalls == 2

\* Number of ledger calls a single caller makes one after another in one behaviour.
MaxSeqCalls == 3

\* Balance every profile holds when the behaviour starts.
InitCredits == 1

\* Largest amount a caller passes.
MaxAmount == 1

\* Number of completeVideoProcessing calls in one behaviour.
MaxCompletions == 1

\* Number of ledger calls made beside the completions in one behaviour.
MaxPipeCalls == 2

\* Number of completeVideoProcessing calls in a behaviour that reports completions
\* more than once.
MaxRepeats == 2

\* Number of ledger calls made beside those repeated completions.
MaxRepeatCalls == 1

Procs == {"p1", "p2"}
Users == {"u1", "u2"}
Amounts == 0..MaxAmount

\* taskId is optional: NoTask is the absent (or empty, equally falsy) taskId.
NoTask == <<>>
Task1 == <<"1">>
Task10 == <<"1", "0">>
TaskIds == {Task1, Task10}
OptTaskIds == {NoTask} \cup TaskIds

\* video_id is null (NoVideo) until a video is attached.
NoVideo == "null"
VideoIds == {"v1", "v2"}

\* the ids the videos table gives its rows, in insertion order
CatalogIds == <<"v1", "v2", "v3", "v4">>

\* metadata.userId is optional
NoUser == "none"

\* refundCredits' optional videoId
RefundVideoIds == {NoVideo}

\* The description a caller passes.
Descriptions == {<<"video gen">>}

(* ------------------------- the code's expressions --------------------- *)

Max(a, b) == IF a >= b THEN a ELSE b

\* mutant: the balance check is lost
InsufficientNever(credits, amount) == FALSE

\* profile.credits < amount
Insufficient(credits, amount) == credits < amount

\* const newCredits = profile.credits - amount: the value READ, not the stored one
DeductNewCredits(credits, amount) == credits - amount

\* mutant: the update decrements the stored balance (credits = credits - amount in SQL)
DeductUpdateAtomic(stored, profile, amount) ==
    [credits |-> stored.credits - amount,
     total_credits_spent |-> stored.total_credits_spent + amount,
     total_videos_created |-> stored.total_videos_created + 1]

\* the columns deductCredits writes, all computed from the profile it read
DeductUpdate(stored, profile, amount) ==
    [credits |-> DeductNewCredits(profile.credits, amount),
     total_credits_spent |-> profile.total_credits_spent + amount,
     total_videos_created |-> profile.total_videos_created + 1]

\* const newCredits = profile.credits + amount
RefundNewCredits(credits, amount) == credits + amount

\* mutant: the floor at zero is lost
RefundSpentUnclamped(spent, amount) == spent - amount

\* Math.max(0, (profile.total_credits_spent || 0) - amount)
RefundSpent(spent, amount) == Max(0, spent - amount)

\* refundCredits writes credits and total_credits_spent only
RefundUpdate(stored, profile, amount) ==
    [credits |-> RefundNewCredits(profile.credits, amount),
     total_credits_spent |-> RefundSpent(profile.total_credits_spent, amount),
     total_videos_created |-> stored.total_videos_created]

\* mutant: the balance is replaced by the amount
AddNewCreditsReplaced(credits, amount) == amount

\* const newCredits = profile.credits + amount
AddNewCredits(credits, amount) == credits + amount

\* addCredits writes credits only
AddUpdate(stored, profile, amount) ==
    [stored EXCEPT !.credits = AddNewCredits(profile.credits, amount)]

\* mutant: the task id is left out of the description
TaskDescriptionPlain(description, taskId) == description

\* taskId ? `${description} - Task: ${taskId}` : description
TaskDescription(description, taskId) ==
    IF taskId # NoTask THEN description \o <<" - ", "Task: ">> \o taskId
    ELSE description

\* mutant: the amount is logged without its sign
UsageRowUnsigned(userId, amount, description, taskId) ==
    [user_id |-> userId, transaction_type |-> "usage", amount |-> amount,
     description |-> TaskDescription(description, taskId),
     task_id |-> taskId, video_id |-> NoVideo]

UsageRow(userId, amount, description, taskId) ==
    [user_id |-> userId, transaction_type |-> "usage", amount |-> -amount,
     description |-> TaskDescription(description, taskId),
     task_id |-> taskId, video_id |-> NoVideo]

\* mutant: the refund is logged as a debit
RefundRowDebit(userId, amount, description, taskId, videoId) ==
    [user_id |-> userId, transaction_type |-> "refund", amount |-> -amount,
     description |-> TaskDescription(description, taskId),
     task_id |-> taskId, video_id |-> videoId]

RefundRow(userId, amount, description, taskId, videoId) ==
    [user_id |-> userId, transaction_type |-> "refund", amount |-> amount,
     description |-> TaskDescription(description, taskId),
     task_id |-> taskId, video_id |-> videoId]

\* mutant: the addition is logged as a debit
AddRowDebit(userId, amount, description, transactionType) ==
    [user_id |-> userId, transaction_type |-> transactionType, amount |-> -amount,
     description |-> description, task_id |-> NoTask, video_id |-> NoVideo]

AddRow(userId, amount, description, transactionType) ==
    [user_id |-> userId, transaction_type |-> transactionType, amount |-> amount,
     description |-> description, task_id |-> NoTask, video_id |-> NoVideo]

\* return { credits: profile.credits || 0 }
GetCredits(profile) == IF profile.credits = 0 THEN 0 ELSE profile.credits

\* SQL LIKE '%<pat>%': pat occurs as a contiguous part of s
Contains(s, pat) ==
    \E i \in 1..(Len(s) - Len(pat) + 1) : SubSeq(s, i, i + Len(pat) - 1) = pat

\* .like('description', `%Task: ${taskId}%`)
LikeTask(description, taskId) == Contains(description, <<"Task: ">> \o taskId)

\* mutant: rows that already carry a video_id are selected too
RecordMatchesTagged(row, userId, taskId) ==
    /\ row.user_id = userId
    /\ row.transaction_type = "usage"
    /\ LikeTask(row.description, taskId)

\* the filter of recordVideoCompletion's update
RecordMatches(row, userId, taskId) ==
    /\ row.user_id = userId
    /\ row.transaction_type = "usage"
    /\ LikeTask(row.description, taskId)
    /\ row.video_id = NoVideo

\* `Video generation completed - Task: ${taskId}, Video: ${videoId}`
CompletionDescription(taskId, videoId) ==
    <<"Video generation completed", " - ", "Task: ">> \o taskId \o <<", Video: ", videoId>>

\* the update: every row the filter selects is written (no order, no limit)
RecordUpdate(rows, userId, taskId, videoId) ==
    [i \in DOMAIN rows |->
        IF RecordMatches(rows[i], userId, taskId)
        THEN [rows[i] EXCEPT !.video_id = videoId,
                             !.description = CompletionDescription(taskId, videoId)]
        ELSE rows[i]]


(* ------------------------------- state -------------------------------- *)

VARIABLES
    profiles,   \* user_profiles: user -> [credits, total_credits_spent, total_videos_created]
    ledger,     \* credit_transactions: the rows in insertion order
    pc,         \* per caller: the await its ledger call is suspended at
    call,       \* per caller: the arguments and locals of its ledger call
    last,       \* what the ledger call that returned last returned
    ncalls,     \* ledger calls started so far
    limit,      \* ledger calls the behaviour may start
    videos,     \* the videos table (the catalog): the rows in insertion order
    files,      \* the local temp files that exist on disk
    pipe,       \* the completeVideoProcessing call: its stage, locals and result
    runLimit,   \* completeVideoProcessing calls the behaviour may start
    pay,        \* the payment client: its environment, its fields, its checkout
    writes      \* per user: the balance writes that have succeeded

vars == <<profiles, ledger, pc, call, last, ncalls, limit, videos, files, pipe, runLimit,
          pay, writes>>

\* what the ledger calls never touch
pipeVars == <<videos, files, pipe, runLimit, pay, writes>>

NoValue == "undefined"
NoCall == [op |-> "none"]
NoSummary == [op |-> "none"]
NoResult == [n |-> 0, op |-> "none", before |-> NoSummary]
NoPipe == [stage |-> "idle", run |-> 0]
NoPay == [stage |-> "none"]
NullProfile == [credits |-> 0, total_credits_spent |-> 0, total_videos_created |-> 0]

\* the calls that read the profile and then write it
WriteOps == {"deduct", "refund", "add"}

NewCall(p, op, u, a, d, t, v, ty) ==
    [n |-> ncalls + 1, op |-> op, user |-> u, amount |-> a,
     description |-> d, task |-> t, video |-> v, type |-> ty,
     read |-> "none", profile |-> NullProfile, wrote |-> FALSE,
     solo |-> \A q \in Procs \ {p} : pc[q] = "idle",
     race |-> op \in WriteOps /\ \E q \in Procs \ {p} : pc[q] = "write" /\ call[q].user = u]

\* what a call starting now means for the calls in flight: they are no longer alone,
\* and one that has read u's balance and not yet written it now shares that read
Others(p, c) ==
    [q \in Procs |->
        IF q # p /\ pc[q] # "idle"
        THEN [call[q] EXCEPT !.solo = FALSE,
                             !.race = @ \/ (pc[q] = "write" /\ call[q].user = c.user
                                            /\ c.op \in WriteOps /\ c.read = "ok")]
        ELSE call[q]]

\* a returned call, as the next return remembers it
Summary(r) ==
    [op |-> r.op, user |-> r.user, amount |-> r.amount,
     success |-> r.success, read |-> r.read, B |-> r.B, S |-> r.S,
     wrote |-> r.wrote, logged |-> r.logged, solo |-> r.solo, race |-> r.race]

\* what a call returns ({success, remainingCredits | newCredits | credits, error}),
\* with the call it answers and the call that returned before it
MkResult(c, success, value, error, logged) ==
    [n |-> c.n, op |-> c.op, user |-> c.user, amount |-> c.amount,
     task |-> c.task, video |-> c.video, type |-> c.type,
     success |-> success, value |-> value, error |-> error,
     read |-> c.read, B |-> c.profile.credits, S |-> c.profile.total_credits_spent,
     wrote |-> c.wrote, logged |-> logged,
     solo |-> c.solo, race |-> c.race,
     before |-> IF last.op = "none" THEN NoSummary ELSE Summary(last)]

\* outcomes of the awaited database calls: createServiceClient() may throw before
\* the first of them; a query resolves to {data, error}
\* (.single() reports a missing row as an error; a null profile without an error
\* is the branch deductCredits answers with 'User profile not found')
ReadOutcomes == {"ok", "error", "throw"}
DeductReadOutcomes == ReadOutcomes \cup {"null"}
WriteOutcomes == {"ok", "error"}

InitLedger ==
    /\ profiles = [u \in Users |-> [credits |-> InitCredits,
                                    total_credits_spent |-> 0,
                                    total_videos_created |-> 0]]
    /\ ledger = <<>>
    /\ writes = [u \in Users |-> 0]
    /\ pc = [p \in Procs |-> "idle"]
    /\ call = [p \in Procs |-> NoCall]
    /\ last = NoResult
    /\ ncalls = 0
    /\ videos = <<>>
    /\ files = {}
    /\ pipe = NoPipe

Init ==
    /\ InitLedger
    /\ limit = MaxCalls
    /\ runLimit = 0
    /\ pay = NoPay

\* one caller, whose calls run one after another
SeqProcs == {"p1"}
SeqUsers == {"u1"}

SeqInit ==
    /\ InitLedger
    /\ limit = MaxSeqCalls
    /\ runLimit = 0
    /\ pay = NoPay

\* the call of p returns r
Return(p, c, r) ==
    /\ pc' = [pc EXCEPT ![p] = "idle"]
    /\ call' = [Others(p, c) EXCEPT ![p] = NoCall]
    /\ last' = r

\* the call of p goes on to the await `next`
Goto(p, c, next) ==
    /\ pc' = [pc EXCEPT ![p] = next]
    /\ call' = [Others(p, c) EXCEPT ![p] = c]
    /\ UNCHANGED last

(* ---------------------------- deductCredits --------------------------- *)

DeductReadError(o, profile, amount) ==
    CASE o = "throw" -> "exception"
      [] o = "error" -> "Failed to fetch user profile"
      [] o = "null" -> "User profile not found"
      [] o = "ok" /\ Insufficient(profile.credits, amount) -> "Insufficient credits"
      [] OTHER -> ""

\* createServiceClient, the profile select and the checks on what it returned
DeductRead(p, u, a, d, t, o) ==
    /\ pc[p] = "idle"
    /\ ncalls < limit
    /\ ncalls' = ncalls + 1
    /\ LET c == [NewCall(p, "deduct", u, a, d, t, NoVideo, "usage") EXCEPT
                    !.read = o,
                    !.profile = IF o = "ok" THEN profiles[u] ELSE NullProfile]
           e == DeductReadError(o, c.profile, a)
       IN  IF e # "" THEN Return(p, c, MkResult(c, FALSE, NoValue, e, FALSE))
           ELSE Goto(p, c, "write")
    /\ UNCHANGED <<profiles, ledger, limit, pipeVars>>

\* mutant: the error of the profile update is not looked at
DeductWriteUnchecked(p, o) ==
    /\ pc[p] = "write"
    /\ call[p].op = "deduct"
    /\ LET c == call[p] IN
       IF o = "ok"
       THEN /\ profiles' = [profiles EXCEPT ![c.user] = DeductUpdate(@, c.profile, c.amount)]
            /\ writes' = [writes EXCEPT ![c.user] = @ + 1]
            /\ Goto(p, [c EXCEPT !.wrote = TRUE], "insert")
       ELSE /\ UNCHANGED <<profiles, writes>>
            /\ Goto(p, c, "insert")
    /\ UNCHANGED <<ledger, ncalls, limit, videos, files, pipe, runLimit, pay>>

\* the profile update and the check of its error
DeductWrite(p, o) ==
    /\ pc[p] = "write"
    /\ call[p].op = "deduct"
    /\ LET c == call[p] IN
       IF o = "ok"
       THEN /\ profiles' = [profiles EXCEPT ![c.user] = DeductUpdate(@, c.profile, c.amount)]
            /\ writes' = [writes EXCEPT ![c.user] = @ + 1]
            /\ Goto(p, [c EXCEPT !.wrote = TRUE], "insert")
       ELSE /\ UNCHANGED <<profiles, writes>>
            /\ Return(p, c, MkResult(c, FALSE, NoValue, "Failed to update credits", FALSE))
    /\ UNCHANGED <<ledger, ncalls, limit, videos, files, pipe, runLimit, pay>>

\* mutant: a failed ledger insert fails the call
DeductReturnStrict(c, o) ==
    IF o = "ok" THEN MkResult(c, TRUE, DeductNewCredits(c.profile.credits, c.amount), "", TRUE)
    ELSE MkResult(c, FALSE, NoValue, "Failed to log transaction", FALSE)

\* after the insert: its error is logged and the call returns success all the same
DeductReturn(c, o) ==
    MkResult(c, TRUE, DeductNewCredits(c.profile.credits, c.amount), "", o = "ok")

\* the ledger insert and the return
DeductInsert(p, o) ==
    /\ pc[p] = "insert"
    /\ call[p].op = "deduct"
    /\ LET c == call[p] IN
       /\ ledger' = IF o = "ok"
                    THEN Append(ledger, UsageRow(c.user, c.amount, c.description, c.task))
                    ELSE ledger
       /\ Return(p, c, DeductReturn(c, o))
    /\ UNCHANGED <<profiles, ncalls, limit, pipeVars>>

(* ---------------------------- refundCredits --------------------------- *)

\* mutant: the error of the profile select is not looked at
RefundReadErrorIgnored(o) == IF o = "throw" THEN "exception" ELSE ""

\* what refundCredits and addCredits answer createServiceClient throwing and the
\* profile select failing with
RefundReadError(o) ==
    CASE o = "throw" -> "exception"
      [] o \in {"error", "null"} -> "Failed to fetch user profile"
      [] OTHER -> ""

RefundRead(p, u, a, d, t, v, o) ==
    /\ pc[p] = "idle"
    /\ ncalls < limit
    /\ ncalls' = ncalls + 1
    /\ LET c == [NewCall(p, "refund", u, a, d, t, v, "refund") EXCEPT
                    !.read = o,
                    !.profile = IF o = "ok" THEN profiles[u] ELSE NullProfile]
           e == RefundReadError(o)
       IN  IF e # "" THEN Return(p, c, MkResult(c, FALSE, NoValue, e, FALSE))
           ELSE Goto(p, c, "write")
    /\ UNCHANGED <<profiles, ledger, limit, pipeVars>>

RefundWrite(p, o) ==
    /\ pc[p] = "write"
    /\ call[p].op = "refund"
    /\ LET c == call[p] IN
       IF o = "ok"
       THEN /\ profiles' = [profiles EXCEPT ![c.user] = RefundUpdate(@, c.profile, c.amount)]
            /\ writes' = [writes EXCEPT ![c.user] = @ + 1]
            /\ Goto(p, [c EXCEPT !.wrote = TRUE], "insert")
       ELSE /\ UNCHANGED <<profiles, writes>>
            /\ Return(p, c, MkResult(c, FALSE, NoValue, "Failed to refund credits", FALSE))
    /\ UNCHANGED <<ledger, ncalls, limit, videos, files, pipe, runLimit, pay>>

RefundReturn(c, o) ==
    MkResult(c, TRUE, RefundNewCredits(c.profile.credits, c.amount), "", o = "ok")

RefundInsert(p, o) ==
    /\ pc[p] = "insert"
    /\ call[p].op = "refund"
    /\ LET c == call[p] IN
       /\ ledger' = IF o = "ok"
                    THEN Append(ledger, RefundRow(c.user, c.amount, c.description,
                                                  c.task, c.video))
                    ELSE ledger
       /\ Return(p, c, RefundReturn(c, o))
    /\ UNCHANGED <<profiles, ncalls, limit, pipeVars>>

(* ------------------------------ addCredits ---------------------------- *)

AddRead(p, u, a, d, ty, o) ==
    /\ pc[p] = "idle"
    /\ ncalls < limit
    /\ ncalls' = ncalls + 1
    /\ LET c == [NewCall(p, "add", u, a, d, NoTask, NoVideo, ty) EXCEPT
                    !.read = o,
                    !.profile = IF o = "ok" THEN profiles[u] ELSE NullProfile]
           e == RefundReadError(o)
       IN  IF e # "" THEN Return(p, c, MkResult(c, FALSE, NoValue, e, FALSE))
           ELSE Goto(p, c, "write")
    /\ UNCHANGED <<profiles, ledger, limit, pipeVars>>

AddWrite(p, o) ==
    /\ pc[p] = "write"
    /\ call[p].op = "add"
    /\ LET c == call[p] IN
       IF o = "ok"
       THEN /\ profiles' = [profiles EXCEPT ![c.user] = AddUpdate(@, c.profile, c.amount)]
            /\ writes' = [writes EXCEPT ![c.user] = @ + 1]
            /\ Goto(p, [c EXCEPT !.wrote = TRUE], "insert")
       ELSE /\ UNCHANGED <<profiles, writes>>
            /\ Return(p, c, MkResult(c, FALSE, NoValue, "Failed to add credits", FALSE))
    /\ UNCHANGED <<ledger, ncalls, limit, videos, files, pipe, runLimit, pay>>

\* mutant: a failed ledger insert fails the call
AddReturnStrict(c, o) ==
    IF o = "ok" THEN MkResult(c, TRUE, AddNewCredits(c.profile.credits, c.amount), "", TRUE)
    ELSE MkResult(c, FALSE, NoValue, "Failed to log transaction", FALSE)

AddReturn(c, o) ==
    MkResult(c, TRUE, AddNewCredits(c.profile.credits, c.amount), "", o = "ok")

AddInsert(p, o) ==
    /\ pc[p] = "insert"
    /\ call[p].op = "add"
    /\ LET c == call[p] IN
       /\ ledger' = IF o = "ok"
                    THEN Append(ledger, AddRow(c.user, c.amount, c.description, c.type))
                    ELSE ledger
       /\ Return(p, c, AddReturn(c, o))
    /\ UNCHANGED <<profiles, ncalls, limit, pipeVars>>

(* ---------------------------- getUserCredits -------------------------- *)

GetError(o) ==
    CASE o = "throw" -> "exception"
      [] o \in {"error", "null"} -> "Failed to fetch credits"
      [] OTHER -> ""

\* mutant: a failed fetch answers {credits: 0} with no error
GetResultSilent(c, o) ==
    IF GetError(o) # "" THEN MkResult(c, FALSE, 0, "", FALSE)
    ELSE MkResult(c, TRUE, GetCredits(c.profile), "", FALSE)

\* what getUserCredits returns: {credits, error?}
GetResult(c, o) ==
    IF GetError(o) # "" THEN MkResult(c, FALSE, 0, GetError(o), FALSE)
    ELSE MkResult(c, TRUE, GetCredits(c.profile), "", FALSE)

\* the frame of getUserCredits: it writes neither table
GetFrame == UNCHANGED <<profiles, ledger>>

GetUserCredits(p, u, o) ==
    /\ pc[p] = "idle"
    /\ ncalls < limit
    /\ ncalls' = ncalls + 1
    /\ LET c == [NewCall(p, "get", u, 0, <<>>, NoTask, NoVideo, "none") EXCEPT
                    !.read = o,
                    !.profile = IF o = "ok" THEN profiles[u] ELSE NullProfile]
       IN  Return(p, c, GetResult(c, o))
    /\ GetFrame
    /\ UNCHANGED <<limit, pipeVars>>

(* ------------------------- recordVideoCompletion ---------------------- *)

RecordError(o) ==
    CASE o = "throw" -> "exception"
      [] o = "error" -> "Failed to update transaction record"
      [] OTHER -> ""

\* mutant: an update that matched no row is reported as a failure
RecordResultCounted(rows, u, t, o) ==
    IF RecordError(o) # "" THEN [success |-> FALSE, error |-> RecordError(o)]
    ELSE IF \E i \in DOMAIN rows : RecordMatches(rows[i], u, t)
         THEN [success |-> TRUE, error |-> ""]
         ELSE [success |-> FALSE, error |-> "No transaction found"]

\* what recordVideoCompletion returns: the update's row count is not looked at
RecordResult(rows, u, t, o) == [success |-> RecordError(o) = "", error |-> RecordError(o)]

RecordOutcomes == {"ok", "error", "throw"}

RecordVideoCompletion(p, u, t, v, o) ==
    /\ pc[p] = "idle"
    /\ ncalls < limit
    /\ ncalls' = ncalls + 1
    /\ ledger' = IF o = "ok" THEN RecordUpdate(ledger, u, t, v) ELSE ledger
    /\ LET c == [NewCall(p, "record", u, 0, <<>>, t, v, "usage") EXCEPT !.read = o]
           r == RecordResult(ledger, u, t, o)
       IN  Return(p, c, MkResult(c, r.success, NoValue, r.error, FALSE))
    /\ UNCHANGED <<profiles, limit, pipeVars>>

(* ------------------------------ behaviours ---------------------------- *)

DeductSteps(p, U) ==
    \/ \E u \in U, a \in Amounts, d \in Descriptions, t \in OptTaskIds,
          o \in DeductReadOutcomes : DeductRead(p, u, a, d, t, o)
    \/ \E o \in WriteOutcomes : DeductWrite(p, o)
    \/ \E o \in WriteOutcomes : DeductInsert(p, o)

RefundSteps(p, U) ==
    \/ \E u \in U, a \in Amounts, d \in Descriptions, t \in OptTaskIds,
          v \in RefundVideoIds, o \in ReadOutcomes : RefundRead(p, u, a, d, t, v, o)
    \/ \E o \in WriteOutcomes : RefundWrite(p, o)
    \/ \E o \in WriteOutcomes : RefundInsert(p, o)

AddSteps(p, U) ==
    \/ \E u \in U, a \in Amounts, d \in Descriptions,
          ty \in {"bonus", "purchase"}, o \in ReadOutcomes : AddRead(p, u, a, d, ty, o)
    \/ \E o \in WriteOutcomes : AddWrite(p, o)
    \/ \E o \in WriteOutcomes : AddInsert(p, o)

LedgerCalls(P, U) ==
    \E p \in P :
        \/ DeductSteps(p, U)
        \/ RefundSteps(p, U)
        \/ AddSteps(p, U)
        \/ \E u \in U, o \in ReadOutcomes : GetUserCredits(p, u, o)
        \/ \E u \in U, t \in TaskIds, v \in VideoIds, o \in RecordOutcomes :
                RecordVideoCompletion(p, u, t, v, o)

Next == LedgerCalls(Procs, Users)

Spec == Init /\ [][Next]_vars

SeqNext == LedgerCalls(SeqProcs, SeqUsers)

SeqSpec == SeqInit /\ [][SeqNext]_vars


(* ----------------------- completeVideoProcessing --------------------- *)
(* One completeVideoProcessing call runs at a time; a new one starts when   *)
(* the one before has settled and nothing it started is still running.      *)

Kinds == {"video", "thumbnail"}
OtherKind(k) == IF k = "video" THEN "thumbnail" ELSE "video"

\* the local temp files of run n: kie-video-<task>-<timestamp>.mp4 and
\* kie-thumbnail-<task>-<timestamp>.jpg
TempFiles(n) == {<<n, k>> : k \in Kinds}

\* mutant: nothing is unlinked
CleanupTempFilesSkipped(fs, paths) == fs

\* cleanupTempFiles, and the catch block of processKieVideoAndThumbnail: every
\* listed file that exists is unlinked
CleanupTempFiles(fs, paths) == fs \ paths

\* how one downloadVideo settles: "ok" (finish), "status" (not 200: rejected, the
\* stream's file is left), "error" (request or file error: the file is unlinked),
\* and the 5 minute timeout, after which request.destroy() may or may not raise
\* the request error that unlinks the file
DownloadOutcomes == {"ok", "status", "error", "timeout", "timeout_unlinked"}
DownloadUnlinks(o) == o \in {"error", "timeout_unlinked"}

UploadOutcomes == {"ok", "error"}
SaveOutcomes == {"ok", "error"}

PipeSettled ==
    /\ pipe.stage \in {"idle", "done", "failed"}
    /\ pipe.stage # "idle"
       => \A k \in Kinds : pipe.dl[k] # "pending" /\ pipe.up[k] # "pending"

ledgerVars == <<profiles, pc, call, last, ncalls, limit, runLimit, pay, writes>>

\* the call: both downloads are started, each opening its file
CompleteVideoProcessing(t, u) ==
    /\ PipeSettled
    /\ pipe.run < runLimit
    /\ pipe' = [stage |-> "downloading", run |-> pipe.run + 1,
                taskId |-> t, userId |-> u,
                dl |-> [k \in Kinds |-> "pending"],
                up |-> [k \in Kinds |-> "none"],
                processingResult |-> FALSE,
                videoId |-> NoVideo,
                recorded |-> "none",
                completion |-> "none",
                result |-> "none"]
    /\ files' = files \cup TempFiles(pipe.run + 1)
    /\ UNCHANGED <<ledger, videos, ledgerVars>>

\* mutant: the two downloads are awaited for their settling, not for their success
DownloadSettled(k, o) ==
    /\ pipe.stage # "idle"
    /\ pipe.dl[k] = "pending"
    /\ files' = IF DownloadUnlinks(o) THEN files \ {<<pipe.run, k>>} ELSE files
    /\ LET dl == [pipe.dl EXCEPT ![k] = IF o = "ok" THEN "done" ELSE "failed"] IN
       pipe' = IF pipe.stage = "downloading" /\ dl[OtherKind(k)] # "pending"
               THEN [pipe EXCEPT !.dl = dl, !.stage = "uploading",
                                 !.up = [j \in Kinds |-> "pending"]]
               ELSE [pipe EXCEPT !.dl = dl]
    /\ UNCHANGED <<ledger, videos, ledgerVars>>

\* one downloadVideo settles.  Promise.all rejects with the first failure: the
\* catch of processKieVideoAndThumbnail finds both local paths still null and
\* deletes nothing, and completeVideoProcessing, holding no processingResult,
\* rethrows.  The other download goes on by itself.
Download(k, o) ==
    /\ pipe.stage # "idle"
    /\ pipe.dl[k] = "pending"
    /\ files' = IF DownloadUnlinks(o) THEN files \ {<<pipe.run, k>>} ELSE files
    /\ LET dl == [pipe.dl EXCEPT ![k] = IF o = "ok" THEN "done" ELSE "failed"] IN
       pipe' = CASE pipe.stage = "downloading" /\ o # "ok" ->
                       [pipe EXCEPT !.dl = dl, !.stage = "failed", !.result = "rejected"]
                 [] pipe.stage = "downloading" /\ o = "ok" /\ dl[OtherKind(k)] = "done" ->
                       [pipe EXCEPT !.dl = dl, !.stage = "uploading",
                                    !.up = [j \in Kinds |-> "pending"]]
                 [] OTHER -> [pipe EXCEPT !.dl = dl]
    /\ UNCHANGED <<ledger, videos, ledgerVars>>

\* mutant: a failed upload does not reject the call
UploadLenient(k, o) ==
    /\ pipe.stage # "idle"
    /\ pipe.up[k] = "pending"
    /\ LET up == [pipe.up EXCEPT ![k] = IF o = "ok" THEN "done" ELSE "failed"] IN
       IF pipe.stage = "uploading" /\ up[OtherKind(k)] # "pending"
       THEN pipe' = [pipe EXCEPT !.up = up, !.stage = "persisting",
                                 !.processingResult = TRUE]
       ELSE pipe' = [pipe EXCEPT !.up = up]
    /\ UNCHANGED files
    /\ UNCHANGED <<ledger, videos, ledgerVars>>

\* one uploadToR2 settles.  The first failure rejects Promise.all: the catch of
\* processKieVideoAndThumbnail unlinks both local files and rethrows.
Upload(k, o) ==
    /\ pipe.stage # "idle"
    /\ pipe.up[k] = "pending"
    /\ LET up == [pipe.up EXCEPT ![k] = IF o = "ok" THEN "done" ELSE "failed"] IN
       CASE pipe.stage = "uploading" /\ o # "ok" ->
               /\ pipe' = [pipe EXCEPT !.up = up, !.stage = "failed", !.result = "rejected"]
               /\ files' = CleanupTempFiles(files, TempFiles(pipe.run))
         [] pipe.stage = "uploading" /\ o = "ok" /\ up[OtherKind(k)] = "done" ->
               /\ pipe' = [pipe EXCEPT !.up = up, !.stage = "persisting",
                                       !.processingResult = TRUE]
               /\ UNCHANGED files
         [] OTHER ->
               /\ pipe' = [pipe EXCEPT !.up = up]
               /\ UNCHANGED files
    /\ UNCHANGED <<ledger, videos, ledgerVars>>

\* the catalog row saveVideoToDatabase inserts
VideoRow(id, metadata) ==
    [id |-> id, user_id |-> metadata.userId, task_id |-> metadata.taskId]

\* mutant: recordVideoCompletion is called whether or not metadata.userId is there
SaveVideoToDatabaseThenRecord(o) ==
    /\ pipe.stage = "persisting"
    /\ IF o = "ok"
       THEN LET id == CatalogIds[Len(videos) + 1] IN
            /\ videos' = Append(videos, VideoRow(id, pipe))
            /\ pipe' = [pipe EXCEPT !.stage = "completing", !.videoId = id]
            /\ UNCHANGED files
       ELSE /\ UNCHANGED videos
            /\ pipe' = [pipe EXCEPT !.stage = "failed", !.result = "rejected"]
            /\ files' = CleanupTempFiles(files, TempFiles(pipe.run))
    /\ UNCHANGED <<ledger, ledgerVars>>

\* saveVideoToDatabase: the insert; its error is thrown, and completeVideoProcessing
\* cleans the temp files up and rethrows.  With no metadata.userId the call cleans
\* up and returns right after the insert.
SaveVideoToDatabase(o) ==
    /\ pipe.stage = "persisting"
    /\ IF o = "ok"
       THEN LET id == CatalogIds[Len(videos) + 1] IN
            /\ videos' = Append(videos, VideoRow(id, pipe))
            /\ IF pipe.userId # NoUser
               THEN /\ pipe' = [pipe EXCEPT !.stage = "completing", !.videoId = id]
                    /\ UNCHANGED files
               ELSE /\ pipe' = [pipe EXCEPT !.stage = "done", !.videoId = id,
                                            !.result = "resolved"]
                    /\ files' = CleanupTempFiles(files, TempFiles(pipe.run))
       ELSE /\ UNCHANGED videos
            /\ pipe' = [pipe EXCEPT !.stage = "failed", !.result = "rejected"]
            /\ files' = CleanupTempFiles(files, TempFiles(pipe.run))
    /\ UNCHANGED <<ledger, ledgerVars>>

\* mutant: a failure of recordVideoCompletion is thrown on
RecordCompletionStrict(o) ==
    /\ pipe.stage = "completing"
    /\ ledger' = IF o = "ok"
                 THEN RecordUpdate(ledger, pipe.userId, pipe.taskId, pipe.videoId)
                 ELSE ledger
    /\ LET ok == RecordResult(ledger, pipe.userId, pipe.taskId, o).success IN
       pipe' = [pipe EXCEPT
                  !.stage = IF ok THEN "done" ELSE "failed",
                  !.recorded = o,
                  !.completion = IF ok THEN "ok" ELSE "failed",
                  !.result = IF ok THEN "resolved" ELSE "rejected"]
    /\ files' = CleanupTempFiles(files, TempFiles(pipe.run))
    /\ UNCHANGED <<videos, ledgerVars>>

\* recordVideoCompletion as completeVideoProcessing calls it; a failure is only
\* warned about; then the temp files are cleaned up and the call returns
\* {videoId, videoUrl, thumbnailUrl}
RecordCompletion(o) ==
    /\ pipe.stage = "completing"
    /\ ledger' = IF o = "ok"
                 THEN RecordUpdate(ledger, pipe.userId, pipe.taskId, pipe.videoId)
                 ELSE ledger
    /\ pipe' = [pipe EXCEPT
                  !.stage = "done",
                  !.recorded = o,
                  !.completion = IF RecordResult(ledger, pipe.userId, pipe.taskId, o).success
                                 THEN "ok" ELSE "failed",
                  !.result = "resolved"]
    /\ files' = CleanupTempFiles(files, TempFiles(pipe.run))
    /\ UNCHANGED <<videos, ledgerVars>>

PipeInit ==
    /\ InitLedger
    /\ limit = MaxPipeCalls
    /\ runLimit = MaxCompletions
    /\ pay = NoPay

\* the ledger calls and the completions of a behaviour run one at a time: a deduct
\* runs while no completion is under way, a completion starts while no deduct is
PipeNext ==
    \/ PipeSettled /\ \E p \in SeqProcs : DeductSteps(p, Users)
    \/ /\ \A p \in Procs : pc[p] = "idle"
       /\ \E t \in TaskIds, u \in Users \cup {NoUser} : CompleteVideoProcessing(t, u)
    \/ \E k \in Kinds, o \in DownloadOutcomes : Download(k, o)
    \/ \E k \in Kinds, o \in UploadOutcomes : Upload(k, o)
    \/ \E o \in SaveOutcomes : SaveVideoToDatabase(o)
    \/ \E o \in RecordOutcomes : RecordCompletion(o)

PipeSpec == PipeInit /\ [][PipeNext]_vars

\* completion reported more than once: MaxRepeats completeVideoProcessing calls
\* after at most MaxRepeatCalls deductCredits calls
RepeatInit ==
    /\ InitLedger
    /\ limit = MaxRepeatCalls
    /\ runLimit = MaxRepeats
    /\ pay = NoPay

RepeatSpec == RepeatInit /\ [][PipeNext]_vars

(* --------------------------- payment client -------------------------- *)
(* Strings are sequences of pieces, so that String.includes is Contains and   *)
(* a template literal is a concatenation.  <<>> is the empty string and also  *)
(* stands for an unset environment variable or an absent response field:      *)
(* the code reads all of them through ||, which takes them alike.             *)

NoField == <<>>

\* a || b on strings
Or(a, b) == IF a # <<>> THEN a ELSE b

\* s.includes(piece)
Includes(s, piece) == Contains(s, <<piece>>)

ProdPaymentUrl == <<"https://", "creem.io/checkout">>
TestPaymentUrl == <<"https://", "test", ".creem.io/checkout">>
ProdApiUrl == <<"https://", "api.creem.io/v1">>
TestApiUrl == <<"https://", "test", "-api.creem.io/v1">>

\* values of process.env.PAYMENT_ENV, "" for unset
PaymentEnvs == {"", "test", "production", "staging"}

\* values of the CREEM_*_PAYMENT_URL and CREEM_*_API_KEY variables
EnvUrls == {NoField, ProdPaymentUrl, TestPaymentUrl}
EnvKeys == {NoField, <<"creem_", "live_1">>, <<"creem_", "test", "_1">>}

\* the apiKey argument of the constructor (absent, or a key; includes is
\* case-sensitive)
ArgKeys == {NoField, <<"creem_", "live_2">>, <<"creem_", "TEST", "_2">>}

Environments ==
    [PAYMENT_ENV : PaymentEnvs,
     CREEM_PROD_API_KEY : EnvKeys, CREEM_TEST_API_KEY : EnvKeys, CREEM_API_KEY : EnvKeys,
     CREEM_PROD_PAYMENT_URL : EnvUrls, CREEM_TEST_PAYMENT_URL : EnvUrls,
     CREEM_PAYMENT_URL : EnvUrls]

\* getPaymentConfig: the apiKey and the paymentUrl of the configuration (the
\* product ids are chosen the same way and are not used by the client)
GetPaymentConfig(env) ==
    IF (IF env.PAYMENT_ENV # "" THEN env.PAYMENT_ENV ELSE "test") = "production"
    THEN [apiKey |-> Or(Or(env.CREEM_PROD_API_KEY, env.CREEM_API_KEY), <<>>),
          paymentUrl |-> Or(Or(env.CREEM_PROD_PAYMENT_URL, env.CREEM_PAYMENT_URL),
                            ProdPaymentUrl)]
    ELSE [apiKey |-> Or(Or(env.CREEM_TEST_API_KEY, env.CREEM_API_KEY), <<>>),
          paymentUrl |-> Or(Or(env.CREEM_TEST_PAYMENT_URL, env.CREEM_PAYMENT_URL),
                            TestPaymentUrl)]

\* mutant: the API is chosen by the key alone
BaseUrlByKey(config, apiKey) ==
    IF Includes(apiKey, "test") THEN TestApiUrl ELSE ProdApiUrl

\* the constructor's choice of this.baseUrl
BaseUrl(config, apiKey) ==
    IF Includes(config.paymentUrl, "test") \/ Includes(apiKey, "test")
    THEN TestApiUrl
    ELSE ProdApiUrl

\* `${value}` of a response field
Template(value) == IF value = NoField THEN <<"undefined">> ELSE value

\* mutant: a response without a payment URL field is an error
PaymentUrlRequired(data, config) ==
    IF data.payment_url # NoField \/ data.url # NoField \/ data.checkout_url # NoField
    THEN Or(Or(data.payment_url, data.url), data.checkout_url)
    ELSE NoField

\* createCheckout's paymentUrl
PaymentUrl(data, config) ==
    IF data.payment_url # NoField \/ data.url # NoField \/ data.checkout_url # NoField
    THEN Or(Or(data.payment_url, data.url), data.checkout_url)
    ELSE config.paymentUrl \o <<"/">> \o Template(data.id)

\* what createCheckout returns
CheckoutResponse(data, config) ==
    [checkout_id |-> data.id,
     payment_url |-> PaymentUrl(data, config),
     status |-> Or(data.status, <<"pending">>)]

NoCheckout == [checkout_id |-> NoField, payment_url |-> NoField, status |-> NoField]

\* the body of a gateway response
ResponseData ==
    [id : {NoField, <<"chk_1">>},
     payment_url : {NoField, <<"https://", "pay.example/1">>},
     url : {NoField, <<"https://", "pay.example/2">>},
     checkout_url : {NoField, <<"https://", "pay.example/3">>},
     status : {NoField, <<"completed">>}]

NoData == [id |-> NoField, payment_url |-> NoField, url |-> NoField,
           checkout_url |-> NoField, status |-> NoField]

\* how the fetch of createCheckout ends: it rejects, it answers a status that is
\* not ok, or it answers ok with a body
FetchOutcomes == {"network", "status", "ok"}

ProductIds == {NoField, <<"prod_1">>}

\* new CreemPaymentClient(apiKey): the key, the base URL, and the throw when there
\* is no key
Constructor(apiKey) ==
    /\ pay.stage = "env"
    /\ LET config == GetPaymentConfig(pay.env)
           key == Or(apiKey, config.apiKey)
       IN  pay' = [pay EXCEPT
                     !.apiKey = key,
                     !.baseUrl = BaseUrl(config, key),
                     !.stage = IF key = <<>> THEN "thrown" ELSE "client",
                     !.error = IF key = <<>> THEN "Creem API key is required" ELSE ""]
    /\ UNCHANGED <<ledger, videos, files, pipe, profiles, pc, call, last, ncalls, limit,
                   runLimit, writes>>

\* createCheckout(request): the product_id check, the fetch, the error of a
\* response that is not ok, and the result built from the body
CreateCheckout(product_id, o, data) ==
    /\ pay.stage = "client"
    /\ o = "ok" \/ data = NoData
    /\ pay' = CASE product_id = NoField ->
                     [pay EXCEPT !.stage = "rejected", !.error = "product_id is required"]
                [] o = "network" ->
                     [pay EXCEPT !.stage = "rejected", !.fetched = pay.baseUrl \o <<"/checkouts">>,
                                 !.error = "fetch failed"]
                [] o = "status" ->
                     [pay EXCEPT !.stage = "rejected", !.fetched = pay.baseUrl \o <<"/checkouts">>,
                                 !.error = "Creem API error"]
                [] OTHER ->
                     [pay EXCEPT !.stage = "resolved", !.fetched = pay.baseUrl \o <<"/checkouts">>,
                                 !.data = data,
                                 !.result = CheckoutResponse(data, GetPaymentConfig(pay.env))]
    /\ UNCHANGED <<ledger, videos, files, pipe, profiles, pc, call, last, ncalls, limit,
                   runLimit, writes>>

\* any environment; no client yet
PayInit ==
    /\ InitLedger
    /\ limit = 0
    /\ runLimit = 0
    /\ pay \in [stage : {"env"}, env : Environments, apiKey : {NoField},
                baseUrl : {NoField}, fetched : {NoField}, data : {NoData},
                result : {NoCheckout}, error : {""}]

PayNext ==
    \/ \E apiKey \in ArgKeys : Constructor(apiKey)
    \/ \E product_id \in ProductIds, o \in FetchOutcomes, data \in ResponseData :
          CreateCheckout(product_id, o, data)

PaySpec == PayInit /\ [][PayNext]_vars


(* ------------------------------ properties ---------------------------- *)

AllIdle == \A q \in Procs : pc[q] = "idle"

\* this step is the return of a ledger call of kind op
Returns(op) == last' # last /\ last'.op = op

\* C1 as stated: a deductCredits whose profile read and balance write succeed (it is
\* suspended at its ledger insert) returns {success: true, remainingCredits: B - A},
\* the write it made left the stored balance at B - A, and it appends one 'usage'
\* row of that user with amount -A and, given a taskId, 'Task: <taskId>' in its
\* description.
C1_DeductAppendsRow ==
    [][\A p \in Procs :
        /\ (pc[p] = "write" /\ call[p].op = "deduct" /\ pc'[p] = "insert")
           => profiles'[call[p].user].credits = call[p].profile.credits - call[p].amount
        /\ (pc[p] = "insert" /\ call[p].op = "deduct" /\ pc'[p] = "idle")
           => /\ last'.success
              /\ last'.value = call[p].profile.credits - call[p].amount
              /\ Len(ledger') = Len(ledger) + 1
              /\ SubSeq(ledger', 1, Len(ledger)) = ledger
              /\ LET row == ledger'[Len(ledger')] IN
                 /\ row.user_id = call[p].user
                 /\ row.transaction_type = "usage"
                 /\ row.amount = 0 - call[p].amount
                 /\ call[p].task # NoTask
                    => Contains(row.description, <<"Task: ">> \o call[p].task)]_vars

\* C1 (amended): as C1, but the 'usage' row is appended when the ledger insert
\* succeeds; when the insert fails the call returns the same success and the
\* ledger is left as it was.
C1_DeductSucceeds ==
    [][\A p \in Procs :
        /\ (pc[p] = "write" /\ call[p].op = "deduct" /\ pc'[p] = "insert")
           => profiles'[call[p].user].credits = call[p].profile.credits - call[p].amount
        /\ (pc[p] = "insert" /\ call[p].op = "deduct" /\ pc'[p] = "idle")
           => /\ last'.success
              /\ last'.value = call[p].profile.credits - call[p].amount
              /\ IF last'.logged
                 THEN /\ Len(ledger') = Len(ledger) + 1
                      /\ SubSeq(ledger', 1, Len(ledger)) = ledger
                      /\ LET row == ledger'[Len(ledger')] IN
                         /\ row.user_id = call[p].user
                         /\ row.transaction_type = "usage"
                         /\ row.amount = 0 - call[p].amount
                         /\ call[p].task # NoTask
                            => Contains(row.description, <<"Task: ">> \o call[p].task)
                 ELSE ledger' = ledger]_vars

\* a deduct of a positive amount with a taskId has returned success and its row is
\* the ledger's last
C1_Witness ==
    /\ AllIdle
    /\ last.op = "deduct" /\ last.success /\ last.logged
    /\ last.amount > 0 /\ last.task # NoTask
    /\ last.value = last.B - last.amount
    /\ profiles[last.user].credits = last.B - last.amount
    /\ Len(ledger) > 0
    /\ ledger[Len(ledger)].amount = 0 - last.amount
    /\ ledger[Len(ledger)].transaction_type = "usage"

\* C2: a deductCredits that reads a balance B < A returns the failure
\* 'Insufficient credits' and never gets to its update or its insert: no deduct in
\* flight past its read holds a balance below its amount, and the returned call
\* has written neither the profile nor the ledger.
C2_InsufficientFails ==
    /\ \A p \in Procs :
          (pc[p] # "idle" /\ call[p].op = "deduct")
             => call[p].profile.credits >= call[p].amount
    /\ (last.op = "deduct" /\ last.read = "ok" /\ last.B < last.amount)
          => /\ ~last.success
             /\ last.error = "Insufficient credits"
             /\ ~last.wrote
             /\ ~last.logged

\* a deduct has been refused for insufficient credits
C2_Witness ==
    /\ last.op = "deduct" /\ last.read = "ok" /\ last.B < last.amount
    /\ last.error = "Insufficient credits"
    /\ profiles[last.user].credits = last.B

\* C3: deductCredits inserts its ledger row only after its balance write, and when
\* the insert fails the call still returns success with the new balance, the step
\* writes nothing back to the profile and adds no row; with no other call around,
\* the stored balance is B - A.
C3_InsertFailureKeepsWrite ==
    [][\A p \in Procs :
        (pc[p] = "insert" /\ call[p].op = "deduct" /\ pc'[p] = "idle")
           => /\ call[p].wrote
              /\ ~last'.logged
                 => /\ last'.success
                    /\ last'.value = call[p].profile.credits - call[p].amount
                    /\ profiles' = profiles
                    /\ ledger' = ledger
                    /\ last'.solo
                       => profiles'[call[p].user].credits
                             = call[p].profile.credits - call[p].amount]_vars

\* a deduct of a positive amount whose ledger insert failed has returned success
C3_Witness ==
    /\ AllIdle
    /\ last.op = "deduct" /\ last.success /\ ~last.logged /\ last.wrote /\ last.solo
    /\ last.amount > 0
    /\ profiles[last.user].credits = last.B - last.amount
    /\ ledger = <<>>

\* C4: in every reachable state, whatever the interleaving of the reads and writes
\* of concurrent deductCredits, refundCredits and addCredits calls with amounts
\* >= 0, the stored balance of every user is >= 0.
C4_BalanceNonNegative == \A u \in Users : profiles[u].credits >= 0

\* the two most recent returns are deducts of the same user that shared a read and
\* both succeeded, and the stored balance is zero
C4_Witness ==
    /\ AllIdle
    /\ last.op = "deduct" /\ last.success /\ last.race /\ last.amount > 0
    /\ last.before.op = "deduct" /\ last.before.success /\ last.before.race
    /\ last.before.amount > 0
    /\ last.before.user = last.user
    /\ profiles[last.user].credits = 0

\* the last two returns are successful deducts of one user that read the same
\* balance while the other had read and not yet written
RacedDeducts ==
    /\ AllIdle
    /\ last.op = "deduct" /\ last.success /\ last.race
    /\ last.before.op = "deduct" /\ last.before.success /\ last.before.race
    /\ last.before.user = last.user
    /\ last.before.B = last.B

\* C5: when two deductCredits calls of one user both read the same balance B before
\* either wrote and both returned success, the stored balance is what one of the
\* two wrote (B - A of that call): the other update is lost.
C5_LostUpdate ==
    RacedDeducts
       => profiles[last.user].credits \in {last.B - last.amount, last.B - last.before.amount}

\* two deducts of A > 0 raced, both returned success, the balance is B - A and both
\* ledger rows are there
C5_Witness ==
    /\ RacedDeducts
    /\ last.amount > 0 /\ last.before.amount = last.amount
    /\ profiles[last.user].credits = last.B - last.amount
    /\ last.logged /\ last.before.logged
    /\ Len(ledger) = 2
    /\ \A i \in 1..2 : /\ ledger[i].user_id = last.user
                       /\ ledger[i].transaction_type = "usage"
                       /\ ledger[i].amount = 0 - last.amount

\* the last return is a deduct of A that ran right after a successful refund of A
\* to the same user, nothing else in between
RefundThenDeduct ==
    /\ AllIdle
    /\ last.op = "deduct" /\ last.solo
    /\ last.before.op = "refund" /\ last.before.success /\ last.before.solo
    /\ last.before.user = last.user
    /\ last.before.amount = last.amount

\* C6: a successful refundCredits(user, A) followed directly by deductCredits(user, A):
\* the deduct reads B + A and is never refused for insufficient credits, and once
\* its update is written it returns success with the stored balance back at B and
\* total_credits_spent at S when S >= A, at A otherwise.
C6_RefundDeductRoundTrip ==
    RefundThenDeduct
       => /\ last.read = "ok"
             => /\ last.B = last.before.B + last.amount
                /\ last.error # "Insufficient credits"
          /\ last.wrote
             => /\ last.success
                /\ last.value = last.before.B
                /\ profiles[last.user].credits = last.before.B
                /\ profiles[last.user].total_credits_spent
                      = IF last.before.S >= last.amount THEN last.before.S
                        ELSE last.amount

\* the round trip of an amount A > 0 with S >= A (an earlier deduct has spent)
C6_Witness ==
    /\ RefundThenDeduct
    /\ last.success
    /\ last.amount > 0
    /\ last.before.S >= last.amount
    /\ profiles[last.user].credits = last.before.B
    /\ profiles[last.user].total_credits_spent = last.before.S

\* C7: an addCredits whose profile read and balance write succeed returns success
\* with newCredits = B + A whether or not its ledger insert succeeds, and a
\* getUserCredits of the same user that runs right after it and fetches the
\* profile returns B + A.
C7_AddThenGet ==
    /\ (last.op = "add" /\ last.wrote)
          => /\ last.success
             /\ last.value = last.B + last.amount
    /\ (/\ AllIdle
        /\ last.op = "get" /\ last.solo /\ last.read = "ok"
        /\ last.before.op = "add" /\ last.before.wrote /\ last.before.solo
        /\ last.before.user = last.user)
          => /\ last.value = last.before.B + last.before.amount
             /\ last.error = ""

\* getUserCredits returned B + A after an addCredits of A > 0 whose ledger insert
\* failed
C7_Witness ==
    /\ AllIdle
    /\ last.op = "get" /\ last.solo /\ last.read = "ok"
    /\ last.before.op = "add" /\ last.before.success /\ ~last.before.logged
    /\ last.before.solo /\ last.before.user = last.user
    /\ last.before.amount > 0
    /\ last.value = last.before.B + last.before.amount
    /\ ledger = <<>>

\* C8: getUserCredits always returns (it never throws) and writes nothing: the
\* profiles and the ledger are the same after it; when the fetch fails, by an
\* error, a missing profile or an exception, it returns credits = 0 with a
\* non-empty error string, and otherwise the stored balance with no error.
C8_GetIsPureRead ==
    [][Returns("get")
        => /\ profiles' = profiles
           /\ ledger' = ledger
           /\ IF last'.read = "ok"
              THEN /\ last'.value = profiles[last'.user].credits
                   /\ last'.error = ""
              ELSE /\ last'.value = 0
                   /\ last'.error # ""]_vars

\* a getUserCredits whose fetch failed has returned 0 for a user holding credits
C8_Witness ==
    /\ last.op = "get" /\ last.read # "ok"
    /\ last.value = 0 /\ last.error # ""
    /\ profiles[last.user].credits > 0

\* the un-tagged 'usage' rows of user u whose description contains 'Task: <t>'
Untagged(rows, u, t) ==
    {i \in DOMAIN rows :
        /\ rows[i].user_id = u
        /\ rows[i].transaction_type = "usage"
        /\ rows[i].video_id = NoVideo
        /\ Contains(rows[i].description, <<"Task: ">> \o t)}

MaxOf(S) == CHOOSE i \in S : \A j \in S : j <= i

\* C9 as stated: a recordVideoCompletion whose update succeeds attaches the video id
\* to the most recent un-tagged matching 'usage' row only: every other un-tagged
\* matching row is left as it was.
C9_OnlyMostRecentTagged ==
    [][(Returns("record") /\ last'.success)
        => LET M == Untagged(ledger, last'.user, last'.task) IN
           M # {}
             => /\ ledger'[MaxOf(M)].video_id = last'.video
                /\ \A i \in M \ {MaxOf(M)} : ledger'[i] = ledger[i]]_vars

\* C10: when no un-tagged 'usage' row of the user matches the task, the
\* recordVideoCompletion that completeVideoProcessing calls changes no ledger row
\* and, its update having run without an error, returns success; and
\* completeVideoProcessing resolves with the id of the catalog row it inserted.
C10_NoMatchIsNoOp ==
    [][(pipe.stage = "completing" /\ pipe'.stage # "completing"
        /\ Untagged(ledger, pipe.userId, pipe.taskId) = {})
        => /\ ledger' = ledger
           /\ pipe'.recorded = "ok" => pipe'.completion = "ok"
           /\ pipe'.stage = "done"
           /\ pipe'.result = "resolved"
           /\ pipe'.videoId # NoVideo
           /\ pipe'.videoId = videos[Len(videos)].id
           /\ videos' = videos]_vars

\* a completion for a user whose ledger rows are all of another task has resolved
\* with its catalog id, and no row was tagged
C10_Witness ==
    /\ pipe.stage = "done" /\ pipe.result = "resolved"
    /\ pipe.userId # NoUser
    /\ pipe.recorded = "ok" /\ pipe.completion = "ok"
    /\ Len(videos) = 1 /\ pipe.videoId = videos[1].id
    /\ ledger # <<>>
    /\ \A i \in DOMAIN ledger :
          /\ ledger[i].video_id = NoVideo
          /\ ledger[i].user_id = pipe.userId

\* completeVideoProcessing(-, -, {taskId: T, userId: u}) has downloaded, uploaded and
\* inserted its catalog row and is about to tag; the ledger call that returned last
\* is a successful deductCredits(u, A, desc, T) whose row was written, the last row
\* of the ledger
DeductThenCompletion ==
    /\ pipe.stage = "completing"
    /\ last.op = "deduct" /\ last.success /\ last.logged
    /\ last.user = pipe.userId /\ last.task = pipe.taskId
    /\ Len(ledger) > 0

\* the catalog rows of task t
RowsOfTask(rows, t) == {i \in DOMAIN rows : rows[i].task_id = t}

\* C11 as stated: after a successful deductCredits(u, A, desc, T), a
\* completeVideoProcessing for task T and user u whose downloads, uploads and catalog
\* insert succeed resolves, exactly one catalog row exists for T, and the usage row
\* that deduct wrote carries the id of that catalog row as its video_id.
C11_CompletionTagsDeduct ==
    [][(DeductThenCompletion /\ pipe'.stage # "completing")
        => /\ pipe'.result = "resolved"
           /\ Cardinality(RowsOfTask(videos', pipe.taskId)) = 1
           /\ \A i \in RowsOfTask(videos', pipe.taskId) : videos'[i].id = pipe'.videoId
           /\ ledger'[Len(ledger)].user_id = pipe.userId
           /\ ledger'[Len(ledger)].amount = 0 - last.amount
           /\ ledger'[Len(ledger)].video_id = pipe'.videoId]_vars

\* C11 (amended): as C11, but the usage row carries the catalog id when the tagging
\* update succeeds; when that update fails the call resolves all the same and the
\* ledger is left as it was, the row un-tagged.
C11_TaggedWhenUpdateSucceeds ==
    [][(DeductThenCompletion /\ pipe'.stage # "completing")
        => /\ pipe'.result = "resolved"
           /\ Cardinality(RowsOfTask(videos', pipe.taskId)) = 1
           /\ \A i \in RowsOfTask(videos', pipe.taskId) : videos'[i].id = pipe'.videoId
           /\ ledger'[Len(ledger)].user_id = pipe.userId
           /\ ledger'[Len(ledger)].amount = 0 - last.amount
           /\ IF pipe'.recorded = "ok"
              THEN ledger'[Len(ledger)].video_id = pipe'.videoId
              ELSE /\ ledger' = ledger
                   /\ ledger[Len(ledger)].video_id = NoVideo]_vars

\* a deduct of A > 0 for task T was followed by a completion for T that resolved, and
\* the deduct's row carries the id of the one catalog row
C11_Witness ==
    /\ pipe.stage = "done" /\ pipe.result = "resolved" /\ pipe.recorded = "ok"
    /\ last.op = "deduct" /\ last.success /\ last.logged /\ last.amount > 0
    /\ last.user = pipe.userId /\ last.task = pipe.taskId
    /\ Len(videos) = 1 /\ videos[1].id = pipe.videoId /\ videos[1].task_id = pipe.taskId
    /\ Len(ledger) > 0
    /\ ledger[Len(ledger)].video_id = pipe.videoId
    /\ ledger[Len(ledger)].amount = 0 - last.amount

\* the calls of C12
FallibleOps == WriteOps \cup {"record"}

\* C12: deductCredits, refundCredits, addCredits and recordVideoCompletion never
\* throw: the step that ends a call hands back the result of that call, and an
\* exception, a failed or empty profile read, a balance below the amount and a failed
\* balance write each give success = false; every result with success = false has a
\* non-empty error string, comes from a call that wrote no balance, and leaves the
\* stored balances as they were.
C12_FailuresAreReturned ==
    [][/\ (ncalls' # ncalls /\ pc' = pc) => last'.n = ncalls'
       /\ \A p \in Procs :
             /\ (pc[p] # "idle" /\ pc'[p] = "idle") => last'.n = call[p].n
             /\ (pc[p] = "write" /\ pc'[p] = "idle") => ~last'.success
       /\ (last' # last /\ last'.op \in FallibleOps)
             => /\ last'.success \in BOOLEAN
                /\ last'.read # "ok" => ~last'.success
                /\ (last'.op = "deduct" /\ last'.read = "ok" /\ last'.B < last'.amount)
                      => ~last'.success
                /\ ~last'.success
                      => /\ last'.error # ""
                         /\ ~last'.wrote
                         /\ ~last'.logged
                         /\ profiles' = profiles]_vars

\* an addCredits whose balance write failed has returned a failure, the balance as
\* it was read, right after a deductCredits that answered an exception with a failure
C12_Witness ==
    /\ AllIdle
    /\ last.op = "add" /\ last.read = "ok" /\ ~last.success /\ last.solo
    /\ last.error = "Failed to add credits" /\ last.amount > 0
    /\ profiles[last.user].credits = last.B
    /\ last.before.op = "deduct" /\ last.before.read = "throw" /\ ~last.before.success

\* C13: no uploadToR2 is started unless both downloads have succeeded, and once a
\* download has failed the call has rejected and goes no further: no upload is
\* started, no catalog row is inserted, recordVideoCompletion is not called and no
\* ledger row is changed.
C13_UploadsAfterBothDownloads ==
    [][/\ pipe'.stage # "idle"
          => /\ (\E k \in Kinds : pipe'.up[k] # "none")
                   => \A k \in Kinds : pipe'.dl[k] = "done"
             /\ (\E k \in Kinds : pipe'.dl[k] = "failed")
                   => /\ pipe'.stage = "failed"
                      /\ pipe'.result = "rejected"
                      /\ \A k \in Kinds : pipe'.up[k] = "none"
                      /\ ~pipe'.processingResult
                      /\ pipe'.videoId = NoVideo
                      /\ pipe'.recorded = "none"
       /\ (pipe.stage # "idle" /\ pipe'.stage # "idle" /\ pipe'.run = pipe.run
           /\ \E k \in Kinds : pipe'.dl[k] = "failed")
          => /\ videos' = videos
             /\ SubSeq(ledger', 1, Len(ledger)) = ledger]_vars

\* the video download failed and the thumbnail download succeeded: the call has
\* rejected with nothing uploaded and nothing inserted
C13_Witness ==
    /\ pipe.stage = "failed" /\ pipe.result = "rejected"
    /\ pipe.dl["video"] = "failed" /\ pipe.dl["thumbnail"] = "done"
    /\ \A k \in Kinds : pipe.up[k] = "none"
    /\ videos = <<>>
    /\ ledger # <<>>
    /\ \A i \in DOMAIN ledger : ledger[i].video_id = NoVideo

\* C14 as stated: when processKieVideoAndThumbnail has failed, at a download or at an
\* upload, none of the temp files of the call is left on disk, the file of the
\* other download included.
C14_FailureDeletesTempFiles ==
    (pipe.stage = "failed" /\ ~pipe.processingResult)
       => files \cap TempFiles(pipe.run) = {}

\* C15 as stated: when a download times out or is answered with a status other than
\* 200, downloadVideo rejects, completeVideoProcessing rejects, and the local file
\* created for that download is no longer on disk.
C15_FailedDownloadRemovesFile ==
    [][\A k \in Kinds, o \in {"status", "timeout", "timeout_unlinked"} :
          Download(k, o)
             => /\ pipe'.dl[k] = "failed"
                /\ pipe'.stage = "failed"
                /\ pipe'.result = "rejected"
                /\ <<pipe.run, k>> \notin files']_vars

\* the steps one completeVideoProcessing call may take from stage to stage
StageSteps ==
    {<<"downloading", "uploading">>, <<"uploading", "persisting">>,
     <<"persisting", "completing">>, <<"persisting", "done">>,
     <<"completing", "done">>,
     <<"downloading", "failed">>, <<"uploading", "failed">>, <<"persisting", "failed">>}

\* this step is a step of the completeVideoProcessing call under way
SameRun == pipe.stage # "idle" /\ pipe'.stage # "idle" /\ pipe'.run = pipe.run

\* C16: a completeVideoProcessing call moves forward only, downloading, uploading,
\* persisting, completing, done: the catalog row is inserted while persisting, after
\* both uploads have succeeded; recordVideoCompletion is called while completing,
\* after the insert has returned the id it is given, and only with a metadata.userId;
\* a failed download, upload or insert takes the call to failed, and from failed (as
\* from done) the call runs nothing more: no upload starts, no row is inserted,
\* nothing is tagged.
C16_StagesMoveForward ==
    [][SameRun
        => /\ pipe'.stage # pipe.stage => <<pipe.stage, pipe'.stage>> \in StageSteps
           /\ Len(videos') # Len(videos)
                 => /\ pipe.stage = "persisting"
                    /\ \A k \in Kinds : pipe.up[k] = "done" /\ pipe.dl[k] = "done"
                    /\ pipe'.videoId = videos'[Len(videos')].id
           /\ pipe'.recorded # pipe.recorded
                 => /\ pipe.stage = "completing"
                    /\ pipe.userId # NoUser
                    /\ pipe.videoId # NoVideo
                    /\ pipe.videoId = videos[Len(videos)].id
           /\ (pipe.stage = "persisting" /\ pipe'.stage = "done") => pipe.userId = NoUser
           /\ (\E k \in Kinds : pipe.dl[k] # "failed" /\ pipe'.dl[k] = "failed")
                 => pipe'.stage = "failed"
           /\ (\E k \in Kinds : pipe.up[k] # "failed" /\ pipe'.up[k] = "failed")
                 => pipe'.stage = "failed"
           /\ pipe.stage \in {"failed", "done"}
                 => /\ pipe'.stage = pipe.stage
                    /\ pipe'.result = pipe.result
                    /\ \A k \in Kinds : pipe.up[k] = "none" => pipe'.up[k] = "none"
                    /\ videos' = videos
                    /\ pipe'.videoId = pipe.videoId
                    /\ pipe'.recorded = pipe.recorded
                    /\ SubSeq(ledger', 1, Len(ledger)) = ledger]_vars

\* a call with a metadata.userId has gone through every stage and is done
C16_Witness ==
    /\ pipe.stage = "done" /\ pipe.result = "resolved"
    /\ pipe.userId # NoUser /\ pipe.recorded = "ok"
    /\ \A k \in Kinds : pipe.dl[k] = "done" /\ pipe.up[k] = "done"
    /\ Len(videos) = 1 /\ videos[1].id = pipe.videoId
    /\ \E i \in DOMAIN ledger : ledger[i].video_id = pipe.videoId

C18_OneCatalogRowPerTask ==
    \A t \in TaskIds : Cardinality(RowsOfTask(videos, t)) <= 1

C20_EachCallOnceFailuresPropagate ==
    [][SameRun
        => /\ \A k \in Kinds :
                 /\ pipe.dl[k] \in {"done", "failed"} => pipe'.dl[k] = pipe.dl[k]
                 /\ pipe.up[k] \in {"done", "failed"} => pipe'.up[k] = pipe.up[k]
                 /\ (pipe'.dl[k] = "failed" \/ pipe'.up[k] = "failed")
                       => pipe'.result = "rejected"
           /\ Len(videos') <= Len(videos) + 1
           /\ (pipe.videoId # NoVideo \/ pipe.stage = "failed")
                 => /\ videos' = videos
                    /\ pipe'.videoId = pipe.videoId
           /\ pipe.recorded # "none"
                 => /\ pipe'.recorded = pipe.recorded
                    /\ SubSeq(ledger', 1, Len(ledger)) = ledger
           /\ \A o \in SaveOutcomes \ {"ok"} :
                 SaveVideoToDatabase(o) => pipe'.result = "rejected"
           /\ (pipe.stage = "completing" /\ pipe'.stage # "completing")
                 => pipe'.result = "resolved"
           /\ pipe.result # "none" => pipe'.result = pipe.result]_vars

\* the video upload of a call failed and its thumbnail upload succeeded: the call has
\* rejected and has inserted nothing
C20_Witness ==
    /\ pipe.stage = "failed" /\ pipe.result = "rejected"
    /\ pipe.up["video"] = "failed" /\ pipe.up["thumbnail"] = "done"
    /\ pipe.videoId = NoVideo
    /\ videos = <<>>
    /\ files = {}

\* C21: a createCheckout that got a successful gateway response returns the
\* response's id as checkout_id and, as payment_url, the first of the response's
\* payment_url, url and checkout_url that has a value; when none of them has one it
\* returns '<configured payment URL>/<id>'.
C21_PaymentUrlFallback ==
    pay.stage = "resolved"
       => LET d == pay.data
              r == pay.result
          IN  /\ r.checkout_id = d.id
              /\ d.payment_url # NoField => r.payment_url = d.payment_url
              /\ (d.payment_url = NoField /\ d.url # NoField) => r.payment_url = d.url
              /\ (d.payment_url = NoField /\ d.url = NoField /\ d.checkout_url # NoField)
                    => r.payment_url = d.checkout_url
              /\ (d.payment_url = NoField /\ d.url = NoField /\ d.checkout_url = NoField
                  /\ d.id # NoField)
                    => r.payment_url
                          = GetPaymentConfig(pay.env).paymentUrl \o <<"/">> \o d.id
              /\ r.payment_url # NoField

\* a checkout whose response carried an id and no URL field has resolved with the
\* URL built from the payment URL set for production
C21_Witness ==
    /\ pay.stage = "resolved"
    /\ pay.env.PAYMENT_ENV = "production"
    /\ pay.env.CREEM_PROD_PAYMENT_URL = NoField
    /\ pay.env.CREEM_PAYMENT_URL = ProdPaymentUrl
    /\ pay.data.id = <<"chk_1">>
    /\ pay.data.payment_url = NoField /\ pay.data.url = NoField
    /\ pay.data.checkout_url = NoField
    /\ pay.result.checkout_id = <<"chk_1">>
    /\ pay.result.payment_url = <<"https://", "creem.io/checkout", "/", "chk_1">>

\* the client exists: the constructor returned
HasClient == pay.stage \in {"client", "resolved", "rejected"}

\* C22: a constructed client has the test API as its base URL exactly when the
\* configured payment URL or the client's API key contains "test", and the
\* production API otherwise, whatever PAYMENT_ENV is; and every request it makes
\* goes to that base URL.
C22_BaseUrlByTestSubstring ==
    HasClient
       => /\ pay.baseUrl \in {TestApiUrl, ProdApiUrl}
          /\ pay.baseUrl = TestApiUrl
                <=> \/ Includes(GetPaymentConfig(pay.env).paymentUrl, "test")
                    \/ Includes(pay.apiKey, "test")
          /\ pay.fetched # NoField => pay.fetched = pay.baseUrl \o <<"/checkouts">>

\* with PAYMENT_ENV = 'production', a key without "test" and a production payment
\* URL with "test" in it, the client has sent its checkout to the test API
C22_Witness ==
    /\ pay.stage = "resolved"
    /\ pay.env.PAYMENT_ENV = "production"
    /\ pay.env.CREEM_PROD_PAYMENT_URL = TestPaymentUrl
    /\ ~Includes(pay.apiKey, "test")
    /\ pay.baseUrl = TestApiUrl
    /\ pay.fetched = TestApiUrl \o <<"/checkouts">>

\* C23 as stated: the balance write of a refundCredits(user, A) that read balance B
\* and total_credits_spent S sets credits to B + A and total_credits_spent to
\* max(0, S - A), never negative, and leaves total_videos_created as stored; the
\* call then returns success with newCredits = B + A and appends one 'refund' row
\* of that user with amount +A.
C23_RefundAppendsRow ==
    [][\A p \in Procs :
        /\ (pc[p] = "write" /\ call[p].op = "refund" /\ pc'[p] = "insert")
           => LET u == call[p].user
                  S == call[p].profile.total_credits_spent
                  A == call[p].amount
              IN  /\ profiles'[u].credits = call[p].profile.credits + A
                  /\ profiles'[u].total_credits_spent = (IF S - A > 0 THEN S - A ELSE 0)
                  /\ profiles'[u].total_credits_spent >= 0
                  /\ profiles'[u].total_videos_created = profiles[u].total_videos_created
        /\ (pc[p] = "insert" /\ call[p].op = "refund" /\ pc'[p] = "idle")
           => /\ last'.success
              /\ last'.value = call[p].profile.credits + call[p].amount
              /\ profiles' = profiles
              /\ Len(ledger') = Len(ledger) + 1
              /\ SubSeq(ledger', 1, Len(ledger)) = ledger
              /\ LET row == ledger'[Len(ledger')] IN
                 /\ row.user_id = call[p].user
                 /\ row.transaction_type = "refund"
                 /\ row.amount = call[p].amount]_vars

\* C23 (amended): as C23, but the 'refund' row is appended when the ledger insert
\* succeeds; when the insert fails the call returns the same success and the
\* ledger is left as it was.
C23_RefundSucceeds ==
    [][\A p \in Procs :
        /\ (pc[p] = "write" /\ call[p].op = "refund" /\ pc'[p] = "insert")
           => LET u == call[p].user
                  S == call[p].profile.total_credits_spent
                  A == call[p].amount
              IN  /\ profiles'[u].credits = call[p].profile.credits + A
                  /\ profiles'[u].total_credits_spent = (IF S - A > 0 THEN S - A ELSE 0)
                  /\ profiles'[u].total_credits_spent >= 0
                  /\ profiles'[u].total_videos_created = profiles[u].total_videos_created
        /\ (pc[p] = "insert" /\ call[p].op = "refund" /\ pc'[p] = "idle")
           => /\ last'.success
              /\ last'.value = call[p].profile.credits + call[p].amount
              /\ profiles' = profiles
              /\ IF last'.logged
                 THEN /\ Len(ledger') = Len(ledger) + 1
                      /\ SubSeq(ledger', 1, Len(ledger)) = ledger
                      /\ LET row == ledger'[Len(ledger')] IN
                         /\ row.user_id = call[p].user
                         /\ row.transaction_type = "refund"
                         /\ row.amount = call[p].amount
                 ELSE ledger' = ledger]_vars

\* a refund of A > 0 to a user who had spent less than A has returned success: the
\* balance is B + A, total_credits_spent is 0 and the 'refund' row of +A is the
\* ledger's last
C23_Witness ==
    /\ AllIdle
    /\ last.op = "refund" /\ last.success /\ last.logged /\ last.solo
    /\ last.amount > 0 /\ last.S < last.amount
    /\ last.value = last.B + last.amount
    /\ profiles[last.user].credits = last.B + last.amount
    /\ profiles[last.user].total_credits_spent = 0
    /\ Len(ledger) > 0
    /\ ledger[Len(ledger)].transaction_type = "refund"
    /\ ledger[Len(ledger)].amount = last.amount

\* the ledger rows of user u
RowsOfUser(rows, u) == {i \in DOMAIN rows : rows[i].user_id = u}

\* C24: a ledger row is inserted only after the balance write of the same call has
\* succeeded: the step that appends a row is the insert of a deductCredits,
\* refundCredits or addCredits call that has written the balance, the row is that
\* call's user's and it is the only row the call appends; a call that returns a
\* failure (profile read, balance check, balance write) has appended nothing; and
\* the ledger rows of a user never outnumber the successful balance writes for that
\* user.
C24_RowsFollowWrites ==
    [][/\ Len(ledger') # Len(ledger)
          => /\ Len(ledger') = Len(ledger) + 1
             /\ \E p \in Procs :
                   /\ pc[p] = "insert" /\ pc'[p] = "idle"
                   /\ call[p].op \in WriteOps
                   /\ call[p].wrote
                   /\ ledger'[Len(ledger')].user_id = call[p].user
       /\ (last' # last /\ last'.op \in WriteOps /\ ~last'.success)
          => /\ ledger' = ledger
             /\ ~last'.logged
       /\ \A u \in Users :
             Cardinality(RowsOfUser(ledger', u)) <= writes'[u]]_vars

\* a call of a user whose balance write failed has returned having appended nothing,
\* after a call of the same user that wrote and logged: one write, one row
C24_Witness ==
    /\ AllIdle
    /\ last.op \in WriteOps /\ last.read = "ok" /\ ~last.success /\ ~last.wrote
    /\ last.error # "Insufficient credits"
    /\ last.before.op \in WriteOps /\ last.before.success /\ last.before.logged
    /\ last.before.user = last.user
    /\ writes[last.user] = 1
    /\ Cardinality(RowsOfUser(ledger, last.user)) = 1

\* C25: every ledger row is a 'usage', 'refund', 'bonus' or 'purchase' row, and the
\* row a call with a positive amount A appends has amount -A when it is a 'usage'
\* row and +A otherwise, so a row's amount is never positive on a 'usage' row and
\* never negative on another; and no step changes the amount, the type or the user
\* of a row that is there, or removes a row.
C25_SignsAndAppendOnly ==
    [][/\ Len(ledger') >= Len(ledger)
       /\ \A i \in DOMAIN ledger :
             /\ ledger'[i].amount = ledger[i].amount
             /\ ledger'[i].transaction_type = ledger[i].transaction_type
             /\ ledger'[i].user_id = ledger[i].user_id
       /\ \A p \in Procs :
             (pc[p] = "insert" /\ pc'[p] = "idle" /\ Len(ledger') > Len(ledger)
              /\ call[p].amount > 0)
                => LET row == ledger'[Len(ledger')] IN
                   IF row.transaction_type = "usage"
                   THEN row.amount = 0 - call[p].amount /\ row.amount < 0
                   ELSE row.amount = call[p].amount /\ row.amount > 0
       /\ \A i \in DOMAIN ledger' :
             /\ ledger'[i].transaction_type \in {"usage", "refund", "bonus", "purchase"}
             /\ ledger'[i].transaction_type = "usage" => ledger'[i].amount <= 0
             /\ ledger'[i].transaction_type # "usage" => ledger'[i].amount >= 0]_vars

\* the 'usage' row of a deduct of A > 0 has been tagged by recordVideoCompletion and
\* still carries its user and the amount -A
C25_Witness ==
    /\ AllIdle
    /\ last.op = "record" /\ last.success
    /\ last.before.op = "deduct" /\ last.before.success /\ last.before.amount > 0
    /\ Len(ledger) = 1
    /\ ledger[1].transaction_type = "usage"
    /\ ledger[1].amount = 0 - last.before.amount
    /\ ledger[1].user_id = last.before.user
    /\ ledger[1].video_id = last.video

\* C26: a video_id is attached to a ledger row at most once: no step, of a
\* recordVideoCompletion for whatever task id and video id or of any other call,
\* changes a row that carries a video_id, its video_id and its description
\* included.
C26_TaggedRowsAreFinal ==
    [][\A i \in DOMAIN ledger :
          ledger[i].video_id # NoVideo
             => /\ i \in DOMAIN ledger'
                /\ ledger'[i] = ledger[i]]_vars

\* two recordVideoCompletion calls for the task of one 'usage' row have succeeded,
\* the second with another video id: the row carries the first one
C26_Witness ==
    /\ AllIdle
    /\ last.op = "record" /\ last.success
    /\ last.before.op = "record" /\ last.before.success
    /\ Len(ledger) = 1
    /\ ledger[1].transaction_type = "usage"
    /\ ledger[1].user_id = last.user
    /\ ledger[1].task_id = last.task
    /\ LikeTask(ledger[1].description, last.task)
    /\ ledger[1].video_id # NoVideo
    /\ ledger[1].video_id # last.video

\* C27 as stated: a recordVideoCompletion(user, T, videoId) changes only 'usage' rows
\* of that user that a deductCredits with task id exactly T wrote: rows of another
\* task id, one that T is the beginning of included, and rows of other users are
\* left as they were.
C27_OnlyRowsOfTheTask ==
    [][Returns("record")
        => \A i \in DOMAIN ledger :
              ledger'[i] # ledger[i]
                 => /\ ledger[i].user_id = last'.user
                    /\ ledger[i].transaction_type = "usage"
                    /\ ledger[i].task_id = last'.task]_vars

RECURSIVE SumAmounts(_, _)
\* the sum of the amounts of the rows of user u
SumAmounts(rows, u) ==
    IF rows = <<>> THEN 0
    ELSE (IF Head(rows).user_id = u THEN Head(rows).amount ELSE 0)
            + SumAmounts(Tail(rows), u)

\* C28: when the deductCredits, refundCredits and addCredits calls of one user run
\* one after another and no ledger insert has failed (every successful balance
\* write has its row), then between calls the stored balance is the initial
\* balance plus the sum of the amounts of the user's ledger rows.
C28_BalanceIsLedgerSum ==
    \A u \in SeqUsers :
        (AllIdle /\ Cardinality(RowsOfUser(ledger, u)) = writes[u])
           => profiles[u].credits = InitCredits + SumAmounts(ledger, u)

\* three calls of the user have written and logged, a deduct, a refund and an
\* addition among them, and the balance is the initial balance plus the rows' sum
C28_Witness ==
    /\ AllIdle
    /\ writes["u1"] = 3
    /\ Len(ledger) = 3
    /\ \E i, j, k \in DOMAIN ledger :
          /\ ledger[i].transaction_type = "usage" /\ ledger[i].amount < 0
          /\ ledger[j].transaction_type = "refund" /\ ledger[j].amount > 0
          /\ ledger[k].transaction_type \in {"bonus", "purchase"} /\ ledger[k].amount > 0
    /\ profiles["u1"].credits = InitCredits + SumAmounts(ledger, "u1")
    /\ profiles["u1"].credits = InitCredits + 1

=============================================================================
